---------------------------- MODULE Spec2Model ----------------------------
(***************************************************************************)
(* A model of bev-rs: the cubic chain validator (src/src/lib.rs), the      *)
(* generic n-order evaluator with its coefficient cache (src/src/nbez.rs), *)
(* and the generated fixed-shape polynomials (src/build.rs,                *)
(* src/src/macros.rs).                                                     *)
(*                                                                         *)
(* Number representations.                                                 *)
(*  - u64 values of factorial/combination are unbounded naturals held as   *)
(*    little-endian sequences of base-2^8 limbs with no trailing zero      *)
(*    limb (zero is <<>>); a value fits u64 iff it has at most 8 limbs.    *)
(*  - usize values are integers r: r >= 0 stands for r, r < 0 stands for   *)
(*    2^64 + r, so that + - * are the wrapping operations modulo 2^64.     *)
(*  - F values are exact rationals <<num, den>> in lowest terms, den > 0.  *)
(***************************************************************************)
EXTENDS Integers, Sequences, FiniteSets, TLC

VARIABLES
    overflow_checks,  \* build profile: TRUE = arithmetic overflow panics, FALSE = it wraps
    c_arg,            \* chain validator: the container handed to from_container
    chain_result,     \* chain validator: what from_container returned
    n_arg, k_arg,     \* combination: the arguments
    comb_result,      \* combination: what the call returned
    curve,            \* generic evaluator: the NBez value the caller holds
    result,           \* generic evaluator: the last call, its arguments and what it returned
    panicked,         \* generic evaluator: a call panicked; the run is over
    synchronized,     \* shared evaluator: the callers hold a lock around each evaluation
    lock,             \* shared evaluator: the thread holding the lock, 0 if none
    shared,           \* shared evaluator: the points and cache cells of the one NBez
    evals             \* shared evaluator: each thread's position and locals

chainVars == <<c_arg, chain_result>>
combVars == <<n_arg, k_arg, comb_result>>
nbezVars == <<curve, result, panicked>>
raceVars == <<synchronized, lock, shared, evals>>
vars == <<overflow_checks, c_arg, chain_result, n_arg, k_arg, comb_result,
          curve, result, panicked, synchronized, lock, shared, evals>>

-----------------------------------------------------------------------------
(* Bounds of the model *)

\* longest node sequence handed to the chain validator
MaxChainLen == 7
\* largest n handed to combination
MaxN == 23
\* longest container of the small generic-evaluator specification
MaxLen == 3
\* longest container of the high-order generic-evaluator specification
MaxPoints == 23

-----------------------------------------------------------------------------
(* u64 arithmetic on limb sequences.  Sums, products and differences are  *)
(* formed limb by limb and their carries resolved by carry lookahead.      *)

U64Bits == 64
LimbBase == 2^8
U64Limbs == U64Bits \div 8

Limb(a, i) == IF 1 <= i /\ i <= Len(a) THEN a[i] ELSE 0

\* the position of the most significant non-zero limb, 0 if there is none
TopLimb(a) ==
    CHOOSE n \in 0..Len(a) : (n = 0 \/ a[n] # 0) /\ \A j \in (n + 1)..Len(a) : a[j] = 0

Norm(a) == IF a = <<>> THEN <<>> ELSE SubSeq(a, 1, TopLimb(a))

\* the limbs of an integer 0 <= x < 2^31
ToLimbs(x) ==
    Norm(<<x % LimbBase, (x \div LimbBase) % LimbBase,
           (x \div LimbBase^2) % LimbBase, x \div LimbBase^3>>)

\* the integer a limb sequence stands for; used only where it is below 2^31
FromLimbs(a) ==
    Limb(a, 1) + LimbBase * Limb(a, 2) + LimbBase^2 * Limb(a, 3) + LimbBase^3 * Limb(a, 4)

FitsInt(a) == Len(a) < 4 \/ (Len(a) = 4 /\ a[4] < 2^7)

\* columns below 2^24: each column hands its second and third base-2^8 digit upward
Spread(c) ==
    IF c = <<>> THEN <<>>
    ELSE [k \in 1..(Len(c) + 2) |->
        (Limb(c, k) % LimbBase) + ((Limb(c, k - 1) \div LimbBase) % LimbBase)
            + (Limb(c, k - 2) \div LimbBase^2)] \o <<>>

\* columns of at most LimbBase + 1: a carry of one enters k if a lower column
\* overflows and every column between is full
CarryIn(e, k) ==
    \E j \in 1..(k - 1) : e[j] >= LimbBase /\ \A m \in (j + 1)..(k - 1) : e[m] = LimbBase - 1

Ripple(e) ==
    IF e = <<>> THEN <<>>
    ELSE [k \in 1..(Len(e) + 1) |->
        (Limb(e, k) + IF CarryIn(e, k) THEN 1 ELSE 0) % LimbBase] \o <<>>

\* the limbs of the number whose column sums are cols, every column below 2^24
Carry(cols) == Norm(Ripple(Spread(Spread(cols))))

\* a - b for a >= b: a borrow enters k if a lower column is negative and every
\* column between is zero
Diff(a, b, k) == Limb(a, k) - Limb(b, k)

BorrowIn(a, b, k) ==
    \E j \in 1..(k - 1) : Diff(a, b, j) < 0 /\ \A m \in (j + 1)..(k - 1) : Diff(a, b, m) = 0

BigSub(a, b) ==
    IF a = <<>> THEN <<>>
    ELSE Norm([k \in 1..Len(a) |->
                  (Diff(a, b, k) - (IF BorrowIn(a, b, k) THEN 1 ELSE 0) + LimbBase)
                      % LimbBase] \o <<>>)

\* a < b on normalised limb sequences: the most significant differing limb decides
BigLess(a, b) ==
    IF Len(a) # Len(b) THEN Len(a) < Len(b)
    ELSE \E i \in 1..Len(a) : a[i] < b[i] /\ \A j \in (i + 1)..Len(a) : a[j] = b[j]

\* a * m for a single limb m
MulLimb(a, m) ==
    IF a = <<>> \/ m = 0 THEN <<>>
    ELSE Carry([k \in 1..Len(a) |-> a[k] * m] \o <<>>)

\* column k of the product of two u64 values (at most U64Limbs = 8 limbs each)
Column(a, b, k) ==
    ((Limb(a, 1) * Limb(b, k) + Limb(a, 2) * Limb(b, k - 1))
        + (Limb(a, 3) * Limb(b, k - 2) + Limb(a, 4) * Limb(b, k - 3)))
    + ((Limb(a, 5) * Limb(b, k - 4) + Limb(a, 6) * Limb(b, k - 5))
        + (Limb(a, 7) * Limb(b, k - 6) + Limb(a, 8) * Limb(b, k - 7)))

\* the full product of two u64 values, up to 128 bits
BigMul(a, b) ==
    IF a = <<>> \/ b = <<>> THEN <<>>
    ELSE Carry([k \in 1..(Len(a) + Len(b)) |-> Column(a, b, k)] \o <<>>)

\* one step of long division by b # 0 in base 2^8: the next limb is shifted into the
\* remainder (r2), and the largest multiple d * b, d = 16 * hi + lo, is taken out of it
DivOut(q, r2, b, d) == [q |-> Norm(<<d>> \o q), r |-> BigSub(r2, MulLimb(b, d))]

DivLow(q, r2, b, hi) ==
    DivOut(q, r2, b,
           16 * hi + Cardinality({c \in 1..15 : ~BigLess(r2, MulLimb(b, 16 * hi + c))}))

DivTake(q, r2, b) ==
    DivLow(q, r2, b, Cardinality({c \in 1..15 : ~BigLess(r2, MulLimb(b, 16 * c))}))

\* while the remainder is below b the quotient limb is zero
DivShift(st, r2, b) ==
    IF BigLess(r2, b) THEN [q |-> Norm(<<0>> \o st.q), r |-> r2]
    ELSE DivTake(st.q, r2, b)

DivStep(st, limb, b) ==
    IF st.r = <<>> /\ limb = 0 THEN [q |-> Norm(<<0>> \o st.q), r |-> <<>>]
    ELSE DivShift(st, Norm(<<limb>> \o st.r), b)

\* the limbs a[i..Len(a)] shifted in, most significant first
RECURSIVE DivLimbs(_, _, _)
DivLimbs(a, b, i) ==
    IF i > Len(a) THEN [q |-> <<>>, r |-> <<>>]
    ELSE DivStep(DivLimbs(a, b, i + 1), a[i], b)

BigDiv(a, b) == DivLimbs(a, b, 1).q

FitsU64(a) == Len(a) <= U64Limbs

\* the value modulo 2^64
WrapU64(a) == IF FitsU64(a) THEN a ELSE Norm(SubSeq(a, 1, U64Limbs))

-----------------------------------------------------------------------------
(* Outcomes of a call: a value, or a panic *)

Ok(v) == [ok |-> TRUE, val |-> v, err |-> "none"]
Panic(msg) == [ok |-> FALSE, val |-> <<>>, err |-> msg]
NotCalled == [ok |-> FALSE, val |-> <<>>, err |-> "not called"]

-----------------------------------------------------------------------------
(* usize arithmetic: debug builds panic on overflow, release builds wrap *)

OkI(v) == [ok |-> TRUE, val |-> v, err |-> "none"]
PanicI(msg) == [ok |-> FALSE, val |-> 0, err |-> msg]

\* unsigned a < b on the wrapped representation
ULess(a, b) == IF (a < 0) = (b < 0) THEN a < b ELSE b < 0

usize_sub(a, b, checks) ==
    IF ULess(a, b) /\ checks THEN PanicI("attempt to subtract with overflow")
    ELSE OkI(a - b)

usize_add(a, b, checks) ==
    IF ULess(a + b, a) /\ checks THEN PanicI("attempt to add with overflow")
    ELSE OkI(a + b)

\* a * b for a small multiplier b >= 0: overflows iff a is within 2^31 of 2^64 and b >= 2
usize_mul(a, b, checks) ==
    IF a < 0 /\ b >= 2 /\ checks THEN PanicI("attempt to multiply with overflow")
    ELSE OkI(a * b)

\* order as u64, as limbs
TwoTo64 == [i \in 1..(U64Limbs + 1) |-> IF i = U64Limbs + 1 THEN 1 ELSE 0] \o <<>>
as_u64(r) == IF r >= 0 THEN ToLimbs(r) ELSE BigSub(TwoTo64, ToLimbs(-r))

-----------------------------------------------------------------------------
(* factorial and combination, src/src/nbez.rs *)

\* u64::checked_mul(...).expect(...)
\* accumulator.wrapping_mul(n) in place of checked_mul(n).expect(..)
wrapping(p) == Ok(WrapU64(p))

\* accumulator.checked_mul(n).expect(..)
checked(p) == IF FitsU64(p) THEN Ok(p) ELSE Panic("factorial overflow")
checked_mul(a, b) == checked(BigMul(a, b))

\* the while loop of factorial: n counts down, the accumulator multiplies up; a failed
\* expect ends it
RECURSIVE factorial_loop(_, _)
factorial_loop(accumulator, n) ==
    IF ~accumulator.ok \/ ~ULess(0, n) THEN accumulator
    ELSE factorial_loop(checked_mul(accumulator.val, as_u64(n)), n - 1)

factorial(n) == factorial_loop(Ok(ToLimbs(1)), n)

\* the unchecked u64 product: panics under overflow checks, wraps without.  The
\* outcome records whether the product exceeded 64 bits.
unchecked(p, checks) ==
    IF FitsU64(p) THEN Ok(p) @@ [wrapped |-> FALSE]
    ELSE IF checks THEN Panic("attempt to multiply with overflow") @@ [wrapped |-> TRUE]
    ELSE Ok(WrapU64(p)) @@ [wrapped |-> TRUE]

unchecked_mul(a, b, checks) == unchecked(BigMul(a, b), checks)

\* u64 division: a zero divisor panics
divide(a, prod) ==
    IF ~prod.ok THEN prod
    ELSE IF prod.val = <<>> THEN Panic("attempt to divide by zero") @@ [wrapped |-> prod.wrapped]
    ELSE Ok(BigDiv(a, prod.val)) @@ [wrapped |-> prod.wrapped]

\* factorial(n - k): n - k below zero panics under overflow checks and wraps without
factorial_of(nk) == IF nk.ok THEN factorial(nk.val) ELSE Panic(nk.err)

\* factorial(n) / (factorial(k) * factorial(n - k)), operands evaluated left to right
quotient(fn, fk, fnk, checks) ==
    IF ~fn.ok THEN fn @@ [wrapped |-> FALSE]
    ELSE IF ~fk.ok THEN fk @@ [wrapped |-> FALSE]
    ELSE IF ~fnk.ok THEN fnk @@ [wrapped |-> FALSE]
    ELSE divide(fn.val, unchecked_mul(fk.val, fnk.val, checks))

combination(n, k, checks) ==
    quotient(factorial(n), factorial(k), factorial_of(usize_sub(n, k, checks)), checks)

-----------------------------------------------------------------------------
(* F: exact rational arithmetic in place of floating point.  <<1, 0>> stands *)
(* for a non-finite value.                                                   *)

Abs(x) == IF x < 0 THEN -x ELSE x

RECURSIVE GCD(_, _)
GCD(a, b) == IF b = 0 THEN a ELSE GCD(b, a % b)

NonFinite == <<1, 0>>
IsFinite(x) == x[2] # 0

RNorm(n, d) ==
    IF d = 0 THEN NonFinite
    ELSE LET g == GCD(Abs(n), Abs(d))
         IN  IF d < 0 THEN <<(-n) \div g, (-d) \div g>> ELSE <<n \div g, d \div g>>

Rat(n) == <<n, 1>>

RAdd(x, y) ==
    IF ~IsFinite(x) \/ ~IsFinite(y) THEN NonFinite
    ELSE LET g == GCD(x[2], y[2])
         IN  RNorm(x[1] * (y[2] \div g) + y[1] * (x[2] \div g), (x[2] \div g) * y[2])

RNeg(x) == IF IsFinite(x) THEN <<-x[1], x[2]>> ELSE NonFinite
RSub(x, y) == RAdd(x, RNeg(y))

RMul(x, y) ==
    IF ~IsFinite(x) \/ ~IsFinite(y) THEN NonFinite
    ELSE LET g1 == GCD(Abs(x[1]), y[2])
             g2 == GCD(Abs(y[1]), x[2])
         IN  <<(x[1] \div g1) * (y[1] \div g2), (x[2] \div g2) * (y[2] \div g1)>>

RDiv(x, y) ==
    IF ~IsFinite(x) \/ ~IsFinite(y) \/ y[1] = 0 THEN NonFinite
    ELSE RMul(x, IF y[1] < 0 THEN <<-y[2], -y[1]>> ELSE <<y[2], y[1]>>)

RLeq(x, y) == x[1] * y[2] <= y[1] * x[2]

\* Float::powi: x^0 = 1 for every x, 0 included; a fraction in lowest terms is raised
\* by raising its numerator and its denominator
powi_up(x, e) == IF IsFinite(x) THEN <<x[1]^e, x[2]^e>> ELSE NonFinite

\* powi with 0^0 = 0: the zeroth power is 1 only of a non-zero base
powi_zero_base(x, e) ==
    IF e = 0 THEN (IF x[1] = 0 THEN Rat(0) ELSE Rat(1))
    ELSE IF e < 0 THEN RDiv(Rat(1), powi_up(x, -e))
    ELSE powi_up(x, e)

powi(x, e) ==
    IF e = 0 THEN Rat(1)
    ELSE IF e < 0 THEN RDiv(Rat(1), powi_up(x, -e))
    ELSE powi_up(x, e)

\* F::from_u64 / F::from_i32 / F::from_usize.  A u64 beyond the integers of this
\* model (only a wrapped product could be one) is given as non-finite.
from_u64(limbs) == IF FitsInt(limbs) THEN Rat(FromLimbs(limbs)) ELSE NonFinite
from_int(n) == Rat(n)

-----------------------------------------------------------------------------
(* Points and vectors: tuples of F, one per axis *)

\* Each operation acts on every axis.
PZero(dim) == [i \in 1..dim |-> Rat(0)] \o <<>>

PAdd(p, q) == [i \in 1..Len(p) |-> RAdd(p[i], q[i])] \o <<>>

PSub(p, q) == [i \in 1..Len(p) |-> RSub(p[i], q[i])] \o <<>>

PScale(p, f) == [i \in 1..Len(p) |-> RMul(p[i], f)] \o <<>>

\* lerp(a, b, factor) = a * (1 - factor) + b * factor
lerp(a, b, factor) == PAdd(PScale(a, RSub(Rat(1), factor)), PScale(b, factor))

-----------------------------------------------------------------------------
(* The generic evaluator NBez and its coefficient cache, src/src/nbez.rs *)

\* from_container panics at this many control points
OrderLimit == 22
\* P = Point2d<F>, the default point type
DefaultDim == 2

RangeSlice(start, end) == [start |-> start, end |-> end]

\* RangeSlice::len
range_len(r, checks) == usize_sub(r.end, r.start, checks)

\* &vec[r.as_range()]
slice(vec, r) ==
    IF ULess(r.end, r.start) \/ ULess(Len(vec), r.end)
    THEN Panic("slice index out of range")
    ELSE Ok(SubSeq(vec, r.start + 1, r.end))

NoCurve ==
    [live |-> FALSE, points |-> <<>>, factor_vec |-> <<>>,
     factors |-> RangeSlice(0, 0), dfactors |-> RangeSlice(0, 0)]

\* the struct NBez::from_container builds
NewNBez(points) ==
    [live |-> TRUE, points |-> points, factor_vec |-> <<>>,
     factors |-> RangeSlice(0, 0), dfactors |-> RangeSlice(0, 0)]

\* from_container with the test len > 22 in place of len >= 22
from_container_past_limit(points) ==
    IF Len(points) > OrderLimit
    THEN Panic("Cannot create Bezier polynomials with an order >= 21")
    ELSE Ok(NewNBez(points))

nbez_from_container(points) ==
    IF Len(points) >= OrderLimit
    THEN Panic("Cannot create Bezier polynomials with an order >= 21")
    ELSE Ok(NewNBez(points))

\* NBez::order
nbez_order(c, checks) == usize_sub(Len(c.points), 1, checks)

\* combination(n, k) for 0 <= k <= n <= MaxPoints, computed once per build profile:
\* CombinationTable[profile][n + 1][k + 1].  (f \o <<>> is f as a tuple.)
combination_row(n, checks) == [k \in 1..(n + 1) |-> combination(n, k - 1, checks)] \o <<>>

combination_rows(checks) == [n \in 1..(MaxPoints + 1) |-> combination_row(n - 1, checks)] \o <<>>

CombinationTable == <<combination_rows(FALSE), combination_rows(TRUE)>>

combination_memo(n, k, checks) ==
    IF 0 <= k /\ k <= n /\ n <= MaxPoints
    THEN CombinationTable[IF checks THEN 2 ELSE 1][n + 1][k + 1]
    ELSE combination(n, k, checks)

Filled(vec) == [ok |-> TRUE, vec |-> vec, err |-> "none"]
Unfilled(vec, err) == [ok |-> FALSE, vec |-> vec, err |-> err]

\* the outcomes of combination(n, k) for k in 0..limit, in the order of the loop
combinations_of(n, limit, checks) ==
    IF ~n.ok THEN [k \in 1..limit |-> Panic(n.err)] \o <<>>
    ELSE [k \in 1..limit |-> combination_memo(n.val, k - 1, checks)] \o <<>>

\* the index of the first iteration that panics
first_panic(cs) == CHOOSE k \in 1..Len(cs) : ~cs[k].ok /\ \A j \in 1..(k - 1) : cs[j].ok

\* vec.push for every iteration up to the first that panics
push_all(vec, cs) ==
    IF \A k \in 1..Len(cs) : cs[k].ok
    THEN Filled(vec \o [k \in 1..Len(cs) |-> cs[k].val])
    ELSE Unfilled(vec \o [k \in 1..(first_panic(cs) - 1) |-> cs[k].val],
                  cs[first_panic(cs)].err)

\* for k in 0..limit { vec.push(combination(order - dec, k)) }; order - dec is only
\* computed when the loop has an iteration
push_combinations(vec, order, dec, limit, checks) ==
    IF ~ULess(0, limit) THEN Filled(vec)
    ELSE push_all(vec, combinations_of(usize_sub(order, dec, checks), limit, checks))

\* Vec<u64>::reserve: a length no allocation can hold (2^64 - 1 here) is a capacity
\* overflow.  The capacity itself is not observable and is not modelled.
reserve_ok(new_len) == new_len >= 0

Updated(c) == [ok |-> TRUE, c |-> c, err |-> "none"]
NotUpdated(c, err) == [ok |-> FALSE, c |-> c, err |-> err]

\* factors.set(RangeSlice::new(0, order + 1)); dfactors.set(RangeSlice::new(order + 1, vec.len()))
set_ranges(c0, factors_end, p2) ==
    IF ~p2.ok THEN NotUpdated([c0 EXCEPT !.factor_vec = p2.vec], p2.err)
    ELSE Updated([c0 EXCEPT !.factor_vec = p2.vec,
                            !.factors = RangeSlice(0, factors_end),
                            !.dfactors = RangeSlice(factors_end, Len(p2.vec))])

\* the second loop pushing combination(order, k) in place of combination(order - 1, k)
push_dfactors_same_row(c0, order, factors_end, p1, checks) ==
    IF ~p1.ok THEN NotUpdated([c0 EXCEPT !.factor_vec = p1.vec], p1.err)
    ELSE set_ranges(c0, factors_end, push_combinations(p1.vec, order, 0, order, checks))

\* for k in 0..order { vec.push(combination(order - 1, k)) }
push_dfactors(c0, order, factors_end, p1, checks) ==
    IF ~p1.ok THEN NotUpdated([c0 EXCEPT !.factor_vec = p1.vec], p1.err)
    ELSE set_ranges(c0, factors_end, push_combinations(p1.vec, order, 1, order, checks))

\* the reserve, then for k in 0..order + 1 { vec.push(combination(order, k)) }
push_factors(c0, order, factors_end, new_len, checks) ==
    IF ~new_len.ok THEN NotUpdated(c0, new_len.err)
    ELSE IF ~reserve_ok(new_len.val) THEN NotUpdated(c0, "capacity overflow")
    ELSE push_dfactors(c0, order, factors_end,
                       push_combinations(<<>>, order, 0, factors_end, checks), checks)

\* (order + 1) * 2 - 1
new_len_of(dbl, checks) == IF dbl.ok THEN usize_sub(dbl.val, 1, checks) ELSE dbl

\* the body of update_factors once the length test has failed; c0 is after set_len(0)
update_factors_fill(order, c0, factors_end, checks) ==
    push_factors(c0, order, factors_end,
                 new_len_of(usize_mul(factors_end, 2, checks), checks), checks)

\* if factors.get().len() != order + 1 { ... }
update_factors_test(order, c, flen, o1, checks) ==
    IF ~flen.ok THEN NotUpdated(c, flen.err)
    ELSE IF ~o1.ok THEN NotUpdated(c, o1.err)
    ELSE IF flen.val # o1.val
         THEN update_factors_fill(order, [c EXCEPT !.factor_vec = <<>>], o1.val, checks)
         ELSE Updated(c)

\* update_factors(order, &factors, &dfactors, &vec) on the cells of c
update_factors(order, c, checks) ==
    update_factors_test(order, c, range_len(c.factors, checks),
                        usize_add(order, 1, checks), checks)

\* a query returns the curve with its cache cells as the call left them, and the outcome
Returned(c, out) == [c |-> c, out |-> out]

\* What both queries do first: update_factors(self.order(), ...), then borrow the
\* slice of factor_vec that the cell names, then order = slice.len() - 1.
\* The outcome's value is <<slice, order>>.
table_order(uc, tab, order) ==
    IF ~order.ok THEN Returned(uc, Panic(order.err))
    ELSE Returned(uc, Ok(<<tab, order.val>>))

table_slice(uc, tab, checks) ==
    IF ~tab.ok THEN Returned(uc, tab)
    ELSE table_order(uc, tab.val, usize_sub(Len(tab.val), 1, checks))

table_updated(u, cell, checks) ==
    IF ~u.ok THEN Returned(u.c, Panic(u.err))
    ELSE table_slice(u.c, slice(u.c.factor_vec, IF cell = "factors" THEN u.c.factors ELSE u.c.dfactors),
                     checks)

table_ordered(c, ord, cell, checks) ==
    IF ~ord.ok THEN Returned(c, Panic(ord.err))
    ELSE table_updated(update_factors(ord.val, c, checks), cell, checks)

read_table(c, cell, checks) == table_ordered(c, nbez_order(c, checks), cell, checks)

\* The for loops of interp_unbounded and slope_unbounded.  The product an iteration
\* adds to acc does not depend on acc: the products are formed first, in the order of
\* the iterations, then the loop adds them up, ending at the first one that panics.
\* Points are 1-based here.

\* *point * t.powi(factor) * t1.powi(order - factor) * F::from_u64(factors[factor])
interp_term(points, t, t1, factors, factor, e) ==
    IF ~e.ok THEN Panic(e.err)
    ELSE IF factor >= Len(factors) THEN Panic("index out of bounds")
    ELSE Ok(PScale(PScale(PScale(points[factor + 1], powi(t, factor)),
                          powi(t1, e.val)),
                   from_u64(factors[factor + 1])))

interp_terms(points, t, t1, order, factors, checks) ==
    [k \in 1..Len(points) |->
        interp_term(points, t, t1, factors, k - 1, usize_sub(order, k - 1, checks))] \o <<>>

\* acc = acc + term
interp_add(acc, term) == IF term.ok THEN Ok(PAdd(acc, term.val)) ELSE term

\* the for loop of interp_unbounded; r is the outcome of the iterations before factor
RECURSIVE interp_loop(_, _, _)
interp_loop(terms, r, factor) ==
    IF ~r.ok \/ factor >= Len(terms) THEN r
    ELSE interp_loop(terms, interp_add(r.val, terms[factor + 1]), factor + 1)

interp_sum(tb, points, t, dim, checks) ==
    IF ~tb.out.ok THEN tb
    ELSE Returned(tb.c, interp_loop(interp_terms(points, t, RSub(Rat(1), t), tb.out.val[2],
                                                 tb.out.val[1], checks),
                                    Ok(PZero(dim)), 0))

interp_unbounded(c, t, dim, checks) ==
    interp_sum(read_table(c, "factors", checks), c.points, t, dim, checks)

\* (point - point_last) * t.powi(factor) * t1.powi(order - factor) * F::from_u64(w)
slope_scaled(points, t, t1, factor, e, w) ==
    IF ~w.ok THEN Panic(w.err)
    ELSE Ok(PScale(PScale(PScale(PSub(points[factor + 2], points[factor + 1]),
                                 powi(t, factor)),
                          powi(t1, e.val)),
                   from_u64(w.val)))

\* w = dfactors[factor] * (order + 1) as u64
slope_term(points, t, t1, dfactors, factor, e, o1, checks) ==
    IF ~e.ok THEN Panic(e.err)
    ELSE IF factor >= Len(dfactors) THEN Panic("index out of bounds")
    ELSE IF ~o1.ok THEN Panic(o1.err)
    ELSE slope_scaled(points, t, t1, factor, e,
                      unchecked_mul(dfactors[factor + 1], as_u64(o1.val), checks))

\* one term for each of points[1..]
slope_terms(points, t, t1, order, dfactors, checks) ==
    [k \in 1..(Len(points) - 1) |->
        slope_term(points, t, t1, dfactors, k - 1, usize_sub(order, k - 1, checks),
                   usize_add(order, 1, checks), checks)] \o <<>>

\* acc = acc + term
slope_add(acc, term) == IF term.ok THEN Ok(PAdd(acc, term.val)) ELSE term

\* the for loop of slope_unbounded; factor counts from 0 and r is the outcome of the
\* iterations before it
RECURSIVE slope_loop(_, _, _)
slope_loop(terms, r, factor) ==
    IF ~r.ok \/ factor >= Len(terms) THEN r
    ELSE slope_loop(terms, slope_add(r.val, terms[factor + 1]), factor + 1)

\* points[0] is read before the loop: an empty container is an index out of bounds
slope_sum(tb, points, t, dim, checks) ==
    IF ~tb.out.ok THEN tb
    ELSE IF Len(points) = 0 THEN Returned(tb.c, Panic("index out of bounds"))
    ELSE Returned(tb.c, slope_loop(slope_terms(points, t, RSub(Rat(1), t), tb.out.val[2],
                                               tb.out.val[1], checks),
                                   Ok(PZero(dim)), 0))

slope_unbounded(c, t, dim, checks) ==
    slope_sum(read_table(c, "dfactors", checks), c.points, t, dim, checks)

\* the control points elevate pushes: points[0], then lerp(p, prev_p, i / order_f) for
\* each later point, then points[self.order()]
\* elevate with the arguments of lerp exchanged: lerp(prev_p, p, i / order_f)
el_points_exchanged(points, order_f, last) ==
    [j \in 1..(Len(points) + 1) |->
        IF j = 1 THEN points[1]
        ELSE IF j = Len(points) + 1 THEN points[last + 1]
        ELSE lerp(points[j - 1], points[j], RDiv(from_int(j - 1), order_f))] \o <<>>

el_points(points, order_f, last) ==
    [j \in 1..(Len(points) + 1) |->
        IF j = 1 THEN points[1]
        ELSE IF j = Len(points) + 1 THEN points[last + 1]
        ELSE lerp(points[j], points[j - 1], RDiv(from_int(j - 1), order_f))] \o <<>>

\* order = self.order() in place of self.order() + 1
elevated_order_same(ord, checks) == ord

\* order = self.order() + 1
elevated_order(ord, checks) == IF ord.ok THEN usize_add(ord.val, 1, checks) ELSE ord

elevate_points(c, ord, order) ==
    IF ~order.ok THEN Panic(order.err)
    ELSE IF Len(c.points) = 0 THEN Panic("index out of bounds")
    ELSE IF ~(0 <= ord.val /\ ord.val < Len(c.points)) THEN Panic("index out of bounds")
    ELSE nbez_from_container(el_points(c.points, from_int(order.val), ord.val))

elevate_ordered(c, ord, checks) == elevate_points(c, ord, elevated_order(ord, checks))

elevate(c, checks) == elevate_ordered(c, nbez_order(c, checks), checks)

\* the bounds test of the checked queries
check_t_bounds(t) == RLeq(Rat(0), t) /\ RLeq(t, Rat(1))

DomainError == [ok |-> FALSE, val |-> <<>>, err |-> "DomainError"]

\* BezCurve::interp and BezCurve::slope: the bounds test, then the unbounded query
nbez_interp(c, t, dim, checks) ==
    IF ~check_t_bounds(t) THEN Returned(c, DomainError) ELSE interp_unbounded(c, t, dim, checks)

nbez_slope(c, t, dim, checks) ==
    IF ~check_t_bounds(t) THEN Returned(c, DomainError) ELSE slope_unbounded(c, t, dim, checks)

-----------------------------------------------------------------------------
(* The chain validator, src/src/lib.rs *)

NodeXY == {<<0, 0>>, <<1, 2>>}
BezNode == [tag : {"Point", "Control"}, x : {0, 1}, y : {0, 2}]
Nodes == {nd \in BezNode : <<nd.x, nd.y>> \in NodeXY}

is_point(node) == node.tag = "Point"
is_control(node) == node.tag = "Control"

NoChain == [kind |-> "none", err |-> "none", container |-> <<>>]
ChainOk(c) == [kind |-> "Ok", err |-> "none", container |-> c]
ChainErr(e) == [kind |-> "Err", err |-> e, container |-> <<>>]
ChainPanic == [kind |-> "Panic", err |-> "slice index out of range", container |-> <<>>]

\* the pattern test without its look at curve[3], the anchor the next segment shares
curve_pattern_open(cslice, i) ==
    /\ is_point(cslice[i * 3 + 1])
    /\ is_control(cslice[i * 3 + 2])
    /\ is_control(cslice[i * 3 + 3])

\* the pattern test on curve = &cslice[i*3..(i+1)*3+1]; sequences are 1-based here
curve_pattern(cslice, i) ==
    /\ is_point(cslice[i * 3 + 1])
    /\ is_control(cslice[i * 3 + 2])
    /\ is_control(cslice[i * 3 + 3])
    /\ is_point(cslice[i * 3 + 4])

\* for i in 0..cslice.len()/3, with its early return
RECURSIVE chain_loop(_, _)
chain_loop(cslice, i) ==
    IF i >= Len(cslice) \div 3 THEN ChainOk(cslice)
    ELSE IF (i + 1) * 3 + 1 > Len(cslice) THEN ChainPanic
    ELSE IF ~curve_pattern(cslice, i) THEN ChainErr("BadNodePattern")
    ELSE chain_loop(cslice, i + 1)

chain_from_container(c) ==
    IF Len(c) % 3 # 1 THEN ChainErr("InvalidLength")
    ELSE chain_loop(c, 0)

-----------------------------------------------------------------------------
(* State predicates shared by the specifications *)

NoResult == [op |-> "none", arg |-> <<>>, t |-> Rat(0), outcome |-> NotCalled]
NoComb == NotCalled @@ [wrapped |-> FALSE]

ChainIdle == c_arg = <<>> /\ chain_result = NoChain
CombIdle == n_arg = 0 /\ k_arg = 0 /\ comb_result = NoComb
NBezIdle == curve = NoCurve /\ result = NoResult /\ panicked = FALSE

\* the threads of the shared evaluator
Threads == {1, 2}

\* a thread that has not called yet
NotStarted ==
    [pc |-> "call", order |-> 0, phase |-> "none", k |-> 0, flag_seen |-> 0,
     slice |-> RangeSlice(0, 0), raced |-> FALSE, factor |-> 0, seen |-> <<>>,
     out |-> NotCalled]

NoShared ==
    [points |-> <<>>, buf |-> <<>>, len |-> 0, borrow |-> 0,
     factors |-> RangeSlice(0, 0), dfactors |-> RangeSlice(0, 0)]

RaceIdle ==
    /\ synchronized = FALSE
    /\ lock = 0
    /\ shared = NoShared
    /\ evals = [th \in Threads |-> NotStarted]

-----------------------------------------------------------------------------
(* Chain validator: actions *)

\* the caller appends a node to the sequence it is about to validate
ChainPush(node) ==
    /\ Len(c_arg) < MaxChainLen
    /\ c_arg' = Append(c_arg, node)
    /\ chain_result' = NoChain
    /\ UNCHANGED <<overflow_checks, raceVars, combVars, nbezVars>>

\* BezCubeChain::from_container(c_arg)
ChainFromContainer ==
    /\ chain_result = NoChain
    /\ chain_result' = chain_from_container(c_arg)
    /\ UNCHANGED <<c_arg, overflow_checks, raceVars, combVars, nbezVars>>

InitChain ==
    /\ overflow_checks \in BOOLEAN
    /\ RaceIdle
    /\ ChainIdle
    /\ CombIdle
    /\ NBezIdle

NextChain ==
    \/ \E node \in Nodes : ChainPush(node)
    \/ ChainFromContainer

SpecChain == InitChain /\ [][NextChain]_vars

-----------------------------------------------------------------------------
(* combination as a pure function of bounded inputs *)

InitComb ==
    /\ overflow_checks \in BOOLEAN
    /\ RaceIdle
    /\ ChainIdle
    /\ NBezIdle
    /\ n_arg \in 0..MaxN
    /\ k_arg \in 0..n_arg
    /\ comb_result = NoComb

CallCombination ==
    /\ comb_result.err = "not called"
    /\ comb_result' = combination(n_arg, k_arg, overflow_checks)
    /\ UNCHANGED <<n_arg, k_arg, overflow_checks, raceVars, chainVars, nbezVars>>

NextComb == CallCombination

SpecComb == InitComb /\ [][NextComb]_vars

-----------------------------------------------------------------------------
(* Generic evaluator: actions.  A panic ends the run. *)

\* control points and parameters of the small specification
PointVals == {<<Rat(0), Rat(0)>>, <<Rat(1), Rat(2)>>}
TVals == {Rat(-1), Rat(0), <<1, 3>>, Rat(1), <<3, 2>>}
SmallContainers == UNION {[1..n -> PointVals] : n \in 0..MaxLen}

\* control points and parameters of the high-order specification
RampPoint(k) == <<Rat(k), Rat((k * k) % 5)>>
RampContainer(n) == [k \in 1..n |-> RampPoint(k - 1)]
TOrder == {Rat(0), <<1, 2>>, Rat(1)}

IsPanic(out) == ~out.ok /\ out.err # "DomainError"

\* NBez::from_container(points)
FromContainer(points) ==
    /\ ~panicked
    /\ ~curve.live
    /\ LET r == nbez_from_container(points)
       IN  /\ curve' = IF r.ok THEN r.val ELSE NoCurve
           /\ result' = [op |-> "from_container", arg |-> points, t |-> Rat(0), outcome |-> r]
           /\ panicked' = ~r.ok
    /\ UNCHANGED <<overflow_checks, raceVars, chainVars, combVars>>

\* a query on the curve: its cache cells, the control points it was made on and the
\* returned outcome
Query(op, t, ret) ==
    /\ ~panicked
    /\ curve.live
    /\ curve' = ret.c
    /\ result' = [op |-> op, arg |-> curve.points, t |-> t, outcome |-> ret.out]
    /\ panicked' = IsPanic(ret.out)
    /\ UNCHANGED <<overflow_checks, raceVars, chainVars, combVars>>

InterpUnbounded(t) ==
    Query("interp_unbounded", t, interp_unbounded(curve, t, DefaultDim, overflow_checks))

SlopeUnbounded(t) ==
    Query("slope_unbounded", t, slope_unbounded(curve, t, DefaultDim, overflow_checks))

Interp(t) == Query("interp", t, nbez_interp(curve, t, DefaultDim, overflow_checks))

Slope(t) == Query("slope", t, nbez_slope(curve, t, DefaultDim, overflow_checks))

\* NBez::order
Order == Query("order", Rat(0), Returned(curve, nbez_order(curve, overflow_checks)))

\* NBez::elevate: the curve is only read
Elevate(maxlen) ==
    /\ Len(curve.points) < maxlen
    /\ Query("elevate", Rat(0), Returned(curve, elevate(curve, overflow_checks)))

\* #[derive(Clone)]: every field cloned
Clone == Query("clone", Rat(0), Returned(curve, Ok(curve)))

\* the caller goes on with the clone instead of the original
Adopt ==
    /\ ~panicked
    /\ result.op = "clone"
    /\ result.outcome.ok
    /\ curve' = result.outcome.val
    /\ result' = NoResult
    /\ UNCHANGED <<panicked, overflow_checks, raceVars, chainVars, combVars>>

\* mutations of the container through as_mut
Mutate(points) ==
    /\ ~panicked
    /\ curve.live
    /\ curve' = [curve EXCEPT !.points = points]
    /\ result' = NoResult
    /\ UNCHANGED <<panicked, overflow_checks, raceVars, chainVars, combVars>>

Push(pt, maxlen) ==
    /\ Len(curve.points) < maxlen
    /\ Mutate(Append(curve.points, pt))

Pop ==
    /\ Len(curve.points) > 0
    /\ Mutate(SubSeq(curve.points, 1, Len(curve.points) - 1))

SetPoint(i, pt) ==
    /\ i \in 1..Len(curve.points)
    /\ curve.points[i] # pt
    /\ Mutate([curve.points EXCEPT ![i] = pt])

InitNBez ==
    /\ overflow_checks \in BOOLEAN
    /\ RaceIdle
    /\ ChainIdle
    /\ CombIdle
    /\ NBezIdle

Next ==
    \/ \E c \in SmallContainers : FromContainer(c)
    \/ \E t \in TVals : InterpUnbounded(t)
    \/ \E t \in TVals : SlopeUnbounded(t)
    \/ \E t \in TVals : Interp(t)
    \/ \E t \in TVals : Slope(t)
    \/ Order
    \/ Elevate(MaxLen)
    \/ Clone
    \/ Adopt
    \/ \E pt \in PointVals : Push(pt, MaxLen)
    \/ Pop
    \/ \E i \in 1..MaxLen, pt \in PointVals : SetPoint(i, pt)

Spec == InitNBez /\ [][Next]_vars

NextOrder ==
    \/ \E n \in 0..MaxPoints : FromContainer(RampContainer(n))
    \/ \E t \in TOrder : InterpUnbounded(t)
    \/ \E t \in TOrder : SlopeUnbounded(t)
    \/ Order
    \/ Elevate(MaxPoints)
    \/ Push(RampPoint(Len(curve.points)), MaxPoints)
    \/ Pop

SpecOrder == InitNBez /\ [][NextOrder]_vars

-----------------------------------------------------------------------------
(* The fixed-shape polynomials: the n_bezier invocations src/build.rs       *)
(* writes, and what the n_bezier macro of src/src/macros.rs makes of them.  *)

MAX_DIMS == 4
MAX_ORDER == 6

dim_tags == <<"x", "y", "z", "w">>

\* factorial and combination of build.rs, on usize
RECURSIVE build_factorial(_)
build_factorial(n) == IF n = 0 THEN 1 ELSE n * build_factorial(n - 1)

build_combination(n, k) ==
    build_factorial(n) \div (build_factorial(k) * build_factorial(n - k))

get_param_name(param_number, poly_order) ==
    IF 0 = param_number THEN "start"
    ELSE IF param_number = poly_order THEN "end"
    ELSE IF 2 = poly_order THEN "ctrl"
    ELSE "ctrl" \o ToString(param_number - 1)

\* the invocation n_bezier!{BezPoly<order>o { field: weight, .. } derived
\* { dleft - dright: dweight, .. }} as main writes it
n_bezier_invocation(order) ==
    [name |-> "BezPoly" \o ToString(order) \o "o",
     fields |-> [o \in 1..(order + 1) |->
                    [field |-> get_param_name(o - 1, order),
                     weight |-> build_combination(order, o - 1)]] \o <<>>,
     derived |-> [o \in 1..order |->
                    [dleft |-> get_param_name(o, order),
                     dright |-> get_param_name(o - 1, order),
                     dweight |-> build_combination(order - 1, o - 1)]] \o <<>>]

\* $name::new($($field: F),+): the struct, its fields in the order of the invocation
poly_new(inv, values) ==
    [i \in 1..Len(inv.fields) |-> [field |-> inv.fields[i].field, value |-> values[i]]] \o <<>>

\* self.$field
field_of(self, name) == self[CHOOSE i \in 1..Len(self) : self[i].field = name].value

\* $($field +)+ F::from_f32(0.0).unwrap(): the sum from the left, then + 0.0
RECURSIVE sum_left(_, _)
sum_left(terms, i) == IF i = 1 THEN terms[1] ELSE RAdd(sum_left(terms, i - 1), terms[i])

sum_fields(terms) == RAdd(sum_left(terms, Len(terms)), Rat(0))

\* the i-th repetition of interp_unbounded: factor has been counted down i times from
\* COUNT + 1
poly_term(self, inv, t, t1, COUNT, i) ==
    RMul(RMul(RMul(powi(t1, COUNT + 1 - i), powi(t, COUNT - (COUNT + 1 - i))),
              field_of(self, inv.fields[i].field)),
         from_int(inv.fields[i].weight))

\* n_bezier: interp_unbounded; COUNT = count!($($field),+) - 1
poly_interp_unbounded(self, inv, t) ==
    Ok(sum_fields([i \in 1..Len(inv.fields) |->
                      poly_term(self, inv, t, RSub(Rat(1), t), Len(inv.fields) - 1, i)] \o <<>>))

\* the i-th repetition of slope_unbounded
poly_dterm(self, inv, t, t1, COUNT, i) ==
    RMul(RMul(RMul(powi(t1, COUNT + 1 - i), powi(t, COUNT - (COUNT + 1 - i))),
              RSub(field_of(self, inv.derived[i].dleft), field_of(self, inv.derived[i].dright))),
         from_int(inv.derived[i].dweight * (COUNT + 1)))

\* n_bezier: slope_unbounded; COUNT = count!($($dleft),+) - 1
poly_slope_unbounded(self, inv, t) ==
    Ok(sum_fields([i \in 1..Len(inv.derived) |->
                      poly_dterm(self, inv, t, RSub(Rat(1), t), Len(inv.derived) - 1, i)] \o <<>>))

\* n_bezier: interp and slope.  check_t_bounds(t) is called as a statement and the
\* query returns a bare F: if the test fails, the query ends there, in a panic.
poly_interp(self, inv, t) ==
    IF ~check_t_bounds(t) THEN DomainError ELSE poly_interp_unbounded(self, inv, t)

poly_slope(self, inv, t) ==
    IF ~check_t_bounds(t) THEN DomainError ELSE poly_slope_unbounded(self, inv, t)

-----------------------------------------------------------------------------
(* The composite curves: the bez_composite invocations src/build.rs writes, *)
(* and what the bez_composite macro of src/src/macros.rs makes of them.     *)

\* the invocation bez_composite!{Bez<order>o<dim>d<BezPoly<order>o> { tag: tag_name, ..; .. }
\* -> <Point<dim>d; Vector<dim>d>; name: tag, ..; ..} as main writes it; sep is the
\* token written between a name and its tags
bez_composite_invocation(order, dim) ==
    [name |-> "Bez" \o ToString(order) \o "o" \o ToString(dim) \o "d",
     poly |-> "BezPoly" \o ToString(order) \o "o",
     fields |-> [d \in 1..dim |->
                    [field |-> dim_tags[d],
                     n_fields |-> [o \in 1..(order + 1) |->
                                      dim_tags[d] \o "_" \o get_param_name(o - 1, order)] \o <<>>]]
                \o <<>>,
     point |-> "Point" \o ToString(dim) \o "d",
     vector |-> "Vector" \o ToString(dim) \o "d",
     dims |-> [o \in 1..(order + 1) |->
                  [dim |-> get_param_name(o - 1, order), sep |-> ":",
                   dfields |-> SubSeq(dim_tags, 1, dim)]] \o <<>>]

\* the matcher of bez_composite: $($dim:ident = $($dfield:ident),+;)+
bez_composite_matches(inv) == \A i \in 1..Len(inv.dims) : inv.dims[i].sep = "="

\* the expansion type-checks: $point::new takes one argument per axis, $poly::new one
\* per control value, self.$dfield is a field of the struct and .$dim an axis of a point
bez_composite_compiles(inv, order, dim) ==
    /\ \A i \in 1..Len(inv.fields) : Len(inv.fields[i].n_fields) = dim
    /\ \A i \in 1..Len(inv.dims) :
          /\ Len(inv.dims[i].dfields) = order + 1
          /\ \E a \in 1..dim : dim_tags[a] = inv.dims[i].dim
          /\ \A j \in 1..Len(inv.dims[i].dfields) :
                \E f \in 1..Len(inv.fields) : inv.fields[f].field = inv.dims[i].dfields[j]

\* the build fails: there is no such type to call
CompileError == [ok |-> FALSE, val |-> <<>>, err |-> "no rules expected this token in macro call"]

\* $name::new: each field is $point::new of its own arguments
composite_new(inv, args) ==
    [i \in 1..Len(inv.fields) |->
        [field |-> inv.fields[i].field,
         value |-> SubSeq(args, (i - 1) * Len(inv.fields[i].n_fields) + 1,
                          i * Len(inv.fields[i].n_fields))]] \o <<>>

\* self.$dfield.$dim
axis_of(self, dfield, dim) ==
    field_of(self, dfield)[CHOOSE a \in 1..Len(dim_tags) : dim_tags[a] = dim]

\* let $dim = $poly::new($(self.$dfield.$dim),+)
composite_poly(self, inv, pinv, i) ==
    poly_new(pinv, [j \in 1..Len(inv.dims[i].dfields) |->
                       axis_of(self, inv.dims[i].dfields[j], inv.dims[i].dim)] \o <<>>)

\* bez_composite: interp_unbounded, $point::new($($dim.interp_unbounded(t)),+)
composite_interp_unbounded(inv, pinv, order, dim, args, t) ==
    IF ~bez_composite_matches(inv) \/ ~bez_composite_compiles(inv, order, dim) THEN CompileError
    ELSE Ok([i \in 1..Len(inv.dims) |->
                poly_interp_unbounded(composite_poly(composite_new(inv, args), inv, pinv, i),
                                      pinv, t).val] \o <<>>)

\* bez_composite: slope_unbounded, $vector::new($($dim.slope_unbounded(t)),+)
composite_slope_unbounded(inv, pinv, order, dim, args, t) ==
    IF ~bez_composite_matches(inv) \/ ~bez_composite_compiles(inv, order, dim) THEN CompileError
    ELSE Ok([i \in 1..Len(inv.dims) |->
                poly_slope_unbounded(composite_poly(composite_new(inv, args), inv, pinv, i),
                                     pinv, t).val] \o <<>>)

-----------------------------------------------------------------------------
(* Fixed-shape polynomials: actions.  The control values of a polynomial    *)
(* are one axis of a ramp of control points.                                *)

RampAxis(k, axis) ==
    IF axis = 1 THEN Rat(k)
    ELSE IF axis = 2 THEN Rat((k * k) % 5)
    ELSE IF axis = 3 THEN RNorm(1 - 2 * k, 3)
    ELSE RNorm(k, k + 1)

\* the control values of BezPoly<order>o along one axis
PolyAxis(order, axis) == [k \in 1..(order + 1) |-> RampAxis(k - 1, axis)] \o <<>>

\* BezPoly<order>o::new(values)
BezPoly(order, values) == poly_new(n_bezier_invocation(order), values)

\* a call on a fixed-shape value: its arguments and what it returned.  These queries
\* return bare values: a call that does not return a value has panicked.
FixedCall(op, arg, t, out) ==
    /\ ~panicked
    /\ ~curve.live
    /\ result' = [op |-> op, arg |-> arg, t |-> t, outcome |-> out]
    /\ panicked' = ~out.ok
    /\ UNCHANGED <<curve, overflow_checks, raceVars, chainVars, combVars>>

PolyInterpUnbounded(order, axis, t) ==
    FixedCall("poly_interp_unbounded", PolyAxis(order, axis), t,
              poly_interp_unbounded(BezPoly(order, PolyAxis(order, axis)),
                                    n_bezier_invocation(order), t))

PolySlopeUnbounded(order, axis, t) ==
    FixedCall("poly_slope_unbounded", PolyAxis(order, axis), t,
              poly_slope_unbounded(BezPoly(order, PolyAxis(order, axis)),
                                   n_bezier_invocation(order), t))

PolyInterp(order, axis, t) ==
    FixedCall("poly_interp", PolyAxis(order, axis), t,
              poly_interp(BezPoly(order, PolyAxis(order, axis)), n_bezier_invocation(order), t))

PolySlope(order, axis, t) ==
    FixedCall("poly_slope", PolyAxis(order, axis), t,
              poly_slope(BezPoly(order, PolyAxis(order, axis)), n_bezier_invocation(order), t))

\* the control points of a composite of this order and dimension
RampPoints(order, dim) ==
    [k \in 1..(order + 1) |-> [axis \in 1..dim |-> RampAxis(k - 1, axis)] \o <<>>] \o <<>>

\* the arguments of Bez<order>o<dim>d::new in the order of its parameters: every
\* control value of the first tag, then of the next
composite_args(order, dim) ==
    [n \in 1..(dim * (order + 1)) |->
        RampAxis((n - 1) % (order + 1), (n - 1) \div (order + 1) + 1)] \o <<>>

CompositeInterpUnbounded(order, dim, t) ==
    FixedCall("composite_interp_unbounded", RampPoints(order, dim), t,
              composite_interp_unbounded(bez_composite_invocation(order, dim),
                                         n_bezier_invocation(order), order, dim,
                                         composite_args(order, dim), t))

CompositeSlopeUnbounded(order, dim, t) ==
    FixedCall("composite_slope_unbounded", RampPoints(order, dim), t,
              composite_slope_unbounded(bez_composite_invocation(order, dim),
                                        n_bezier_invocation(order), order, dim,
                                        composite_args(order, dim), t))

NextFixed ==
    \/ \E order \in 2..MAX_ORDER, axis \in 1..MAX_DIMS, t \in TVals :
          PolyInterpUnbounded(order, axis, t)
    \/ \E order \in 2..MAX_ORDER, axis \in 1..MAX_DIMS, t \in TVals :
          PolySlopeUnbounded(order, axis, t)
    \/ \E order \in 2..MAX_ORDER, axis \in 1..MAX_DIMS, t \in TVals :
          PolyInterp(order, axis, t)
    \/ \E order \in 2..MAX_ORDER, axis \in 1..MAX_DIMS, t \in TVals :
          PolySlope(order, axis, t)
    \/ \E order \in 2..MAX_ORDER, dim \in 2..MAX_DIMS, t \in TVals :
          CompositeInterpUnbounded(order, dim, t)
    \/ \E order \in 2..MAX_ORDER, dim \in 2..MAX_DIMS, t \in TVals :
          CompositeSlopeUnbounded(order, dim, t)

NextEval == NextOrder \/ NextFixed

SpecEval == InitNBez /\ [][NextEval]_vars

-----------------------------------------------------------------------------
(* One NBez shared by two threads that each call interp_unbounded,           *)
(* src/src/nbez.rs.  A step is one access to the shared cells: the Cell      *)
(* reads and writes, the reads and writes of the RefCell borrow flag (they   *)
(* are not atomic), set_len, and each Vec::push.  With synchronized the      *)
(* callers hold a lock from the call to the return.                          *)

\* longest container of the shared-evaluator specification
MaxRacePoints == 3
\* the parameter both threads evaluate at
RaceT == <<1, 2>>

\* the cells as an NBez value; the vector is the buffer up to its length
AsNBez(sh) ==
    [live |-> TRUE, points |-> sh.points, factor_vec |-> SubSeq(sh.buf, 1, sh.len),
     factors |-> sh.factors, dfactors |-> sh.dfactors]

\* the cells of an NBez value, nothing borrowed
ShareOf(c) ==
    [points |-> c.points, buf |-> c.factor_vec, len |-> Len(c.factor_vec), borrow |-> 0,
     factors |-> c.factors, dfactors |-> c.dfactors]

\* a step of thread th from position from: the cells and the thread's locals after it.
\* writes: the step changed the vector, so a slice another thread holds into it is no
\* longer a slice of what the vector holds.
Step(th, from, sh, loc, writes) ==
    /\ evals[th].pc = from
    /\ synchronized => lock = (IF from = "call" THEN 0 ELSE th)
    /\ shared' = sh
    /\ evals' = [b \in Threads |->
                    IF b = th THEN loc
                    ELSE IF writes /\ evals[b].pc = "loop" THEN [evals[b] EXCEPT !.raced = TRUE]
                    ELSE evals[b]]
    /\ lock' = IF synchronized /\ loc.pc \notin {"done", "panicked"} THEN th ELSE 0
    /\ UNCHANGED <<synchronized, overflow_checks, chainVars, combVars, nbezVars>>

\* a panic of the thread: it unwinds and its evaluation is over
Unwound(loc, msg) == [loc EXCEPT !.pc = "panicked", !.out = Panic(msg)]

\* self.order()
RaceCall(th) ==
    Step(th, "call", shared,
         [evals[th] EXCEPT !.pc = "test",
                           !.order = nbez_order(AsNBez(shared), overflow_checks).val],
         FALSE)

\* factors.get().len() != order + 1 with order in place of order + 1
needs_update_off_by_one(factors, order, checks) == range_len(factors, checks).val # order

\* factors.get().len() != order + 1
needs_update(factors, order, checks) == range_len(factors, checks).val # order + 1

RaceTest(th) ==
    Step(th, "test", shared,
         [evals[th] EXCEPT !.pc = IF needs_update(shared.factors, evals[th].order, overflow_checks)
                                  THEN "borrow_mut" ELSE "borrow"],
         FALSE)

\* vec.borrow_mut(): the flag is read,
BorrowMutGet(th) ==
    Step(th, "borrow_mut", shared,
         [evals[th] EXCEPT !.pc = "borrow_mut_set", !.flag_seen = shared.borrow], FALSE)

\* then, if it read as unused, written
BorrowMutSet(th) ==
    IF evals[th].flag_seen = 0
    THEN Step(th, "borrow_mut_set", [shared EXCEPT !.borrow = -1],
              [evals[th] EXCEPT !.pc = "set_len"], FALSE)
    ELSE Step(th, "borrow_mut_set", shared,
              Unwound([evals[th] EXCEPT !.flag_seen = 0], "already borrowed"), FALSE)

\* unsafe { vec.set_len(0) }, and the reserve, which leaves the contents alone
SetLen(th) ==
    Step(th, "set_len", [shared EXCEPT !.len = 0],
         [evals[th] EXCEPT !.pc = "push", !.phase = "factors", !.k = 0], TRUE)

\* combination(order, k) in the first loop, combination(order - 1, k) in the second
pushed(order, phase, k, checks) ==
    combination_memo(IF phase = "factors" THEN order ELSE order - 1, k, checks).val

\* the thread's locals after the push of iteration k: the next iteration, the second
\* loop, or past both loops
after_push(loc) ==
    IF loc.phase = "factors" /\ loc.k + 1 < loc.order + 1
        THEN [loc EXCEPT !.pc = "push", !.k = loc.k + 1]
    ELSE IF loc.phase = "factors" /\ 0 < loc.order
        THEN [loc EXCEPT !.pc = "push", !.phase = "dfactors", !.k = 0]
    ELSE IF loc.phase = "dfactors" /\ loc.k + 1 < loc.order
        THEN [loc EXCEPT !.pc = "push", !.k = loc.k + 1]
    ELSE [loc EXCEPT !.pc = "set_factors", !.phase = "none", !.k = 0]

\* the element written at the length; what lies beyond the length is overwritten
written(buf, at, v) == IF at < Len(buf) THEN [buf EXCEPT ![at + 1] = v] ELSE Append(buf, v)

\* vec.push(combination(..)), one step
PushCombination(th) ==
    Step(th, "push",
         [shared EXCEPT !.buf = written(shared.buf, shared.len,
                                        pushed(evals[th].order, evals[th].phase, evals[th].k,
                                               overflow_checks)),
                        !.len = shared.len + 1],
         after_push(evals[th]), TRUE)

\* factors.set(RangeSlice::new(0, order + 1))
SetFactors(th) ==
    Step(th, "set_factors", [shared EXCEPT !.factors = RangeSlice(0, evals[th].order + 1)],
         [evals[th] EXCEPT !.pc = "set_dfactors"], FALSE)

\* dfactors.set(RangeSlice::new(order + 1, vec.len()))
SetDfactors(th) ==
    Step(th, "set_dfactors",
         [shared EXCEPT !.dfactors = RangeSlice(evals[th].order + 1, shared.len)],
         [evals[th] EXCEPT !.pc = "drop_mut"], FALSE)

\* the RefMut goes out of scope: the flag is reset, or counted up by one, depending on
\* the standard library
DropMut(th, flag) ==
    Step(th, "drop_mut", [shared EXCEPT !.borrow = flag],
         [evals[th] EXCEPT !.pc = "borrow"], FALSE)

\* self.factor_vec.borrow(): the flag is read,
BorrowGet(th) ==
    Step(th, "borrow", shared,
         [evals[th] EXCEPT !.pc = "borrow_set", !.flag_seen = shared.borrow], FALSE)

\* then, if it did not read as writing, counted up
BorrowSet(th) ==
    IF evals[th].flag_seen >= 0
    THEN Step(th, "borrow_set", [shared EXCEPT !.borrow = evals[th].flag_seen + 1],
              [evals[th] EXCEPT !.pc = "slice", !.flag_seen = 0], FALSE)
    ELSE Step(th, "borrow_set", shared,
              Unwound([evals[th] EXCEPT !.flag_seen = 0], "already mutably borrowed"), FALSE)

\* the Ref is dropped, on return or while unwinding
ref_dropped(sh) == [sh EXCEPT !.borrow = sh.borrow - 1]

\* the locals after &vec[self.factors.get().as_range()] and order = factors.len() - 1
sliced(loc, r, len, order) ==
    IF ULess(r.end, r.start) \/ ULess(len, r.end) THEN Unwound(loc, "slice index out of range")
    ELSE IF ~order.ok THEN Unwound(loc, order.err)
    ELSE [loc EXCEPT !.pc = "loop", !.slice = r, !.raced = FALSE, !.factor = 0, !.seen = <<>>]

Slice(th) ==
    LET loc == sliced(evals[th], shared.factors, shared.len,
                      usize_sub(range_len(shared.factors, overflow_checks).val, 1,
                                overflow_checks))
    IN  Step(th, "slice", IF loc.pc = "panicked" THEN ref_dropped(shared) ELSE shared,
             loc, FALSE)

\* what factors[factor] can read: the element of the buffer, or, once another thread
\* has written to the vector under the slice, anything
readable(sh, loc) ==
    IF loc.pc # "loop" \/ loc.slice.start + loc.factor >= Len(sh.buf) THEN {ToLimbs(0)}
    ELSE IF loc.raced THEN {sh.buf[loc.slice.start + loc.factor + 1], ToLimbs(0)}
    ELSE {sh.buf[loc.slice.start + loc.factor + 1]}

\* one iteration of for point in points.iter(): factors[factor] is read
LoopRead(th, v) ==
    /\ evals[th].pc = "loop"
    /\ evals[th].factor < Len(shared.points)
    /\ IF evals[th].factor >= evals[th].slice.end - evals[th].slice.start
       THEN Step(th, "loop", ref_dropped(shared),
                 Unwound(evals[th], "index out of bounds"), FALSE)
       ELSE /\ v \in readable(shared, evals[th])
            /\ Step(th, "loop", shared,
                    [evals[th] EXCEPT !.factor = evals[th].factor + 1,
                                      !.seen = Append(evals[th].seen, v)], FALSE)

\* the value interp_unbounded returns, from the coefficients it read
race_value(points, loc, checks) ==
    interp_loop(interp_terms(points, RaceT, RSub(Rat(1), RaceT),
                             loc.slice.end - loc.slice.start - 1, loc.seen, checks),
                Ok(PZero(DefaultDim)), 0)

\* the loop is over: acc is returned and the Ref dropped
Return(th) ==
    /\ evals[th].pc = "loop"
    /\ evals[th].factor = Len(shared.points)
    /\ Step(th, "loop", ref_dropped(shared),
            [evals[th] EXCEPT !.pc = "done",
                              !.out = race_value(shared.points, evals[th], overflow_checks)],
            FALSE)

\* the cache cells when the threads start: a fresh curve, or one evaluated while its
\* container had m points
StartCells(n, m) ==
    IF m = 0 THEN ShareOf(NewNBez(RampContainer(n)))
    ELSE ShareOf(update_factors(m - 1, NewNBez(RampContainer(n)), FALSE).c)

InitRace ==
    /\ overflow_checks \in BOOLEAN
    /\ ChainIdle
    /\ CombIdle
    /\ NBezIdle
    /\ synchronized \in BOOLEAN
    /\ lock = 0
    /\ shared \in {StartCells(n, m) : n \in 1..MaxRacePoints, m \in 0..MaxRacePoints}
    /\ evals = [th \in Threads |-> NotStarted]

NextRace ==
    \/ \E th \in Threads : RaceCall(th)
    \/ \E th \in Threads : RaceTest(th)
    \/ \E th \in Threads : BorrowMutGet(th)
    \/ \E th \in Threads : BorrowMutSet(th)
    \/ \E th \in Threads : SetLen(th)
    \/ \E th \in Threads : PushCombination(th)
    \/ \E th \in Threads : SetFactors(th)
    \/ \E th \in Threads : SetDfactors(th)
    \/ \E th \in Threads : \E flag \in {0, shared.borrow + 1} : DropMut(th, flag)
    \/ \E th \in Threads : BorrowGet(th)
    \/ \E th \in Threads : BorrowSet(th)
    \/ \E th \in Threads : Slice(th)
    \/ \E th \in Threads : \E v \in readable(shared, evals[th]) : LoopRead(th, v)
    \/ \E th \in Threads : Return(th)

SpecRace == InitRace /\ [][NextRace]_vars

-----------------------------------------------------------------------------
(* Properties of the chain validator, checked under SpecChain *)

\* what nodes 3i, 3i+1, 3i+2, 3i+3 of s must be tagged
SegmentTags(s, i) == <<s[3 * i + 1].tag, s[3 * i + 2].tag, s[3 * i + 3].tag, s[3 * i + 4].tag>>

ExpectedChain(s) ==
    IF Len(s) % 3 # 1 THEN ChainErr("InvalidLength")
    ELSE IF \E i \in 0..(Len(s) \div 3 - 1) :
                SegmentTags(s, i) # <<"Point", "Control", "Control", "Point">>
         THEN ChainErr("BadNodePattern")
         ELSE ChainOk(s)

\* C1: from_container(s) is Err(InvalidLength) iff len(s) % 3 # 1; otherwise it is
\* Err(BadNodePattern) iff some segment i < len(s)/3 is not tagged anchor, control,
\* control, anchor; otherwise it is Ok wrapping s unchanged.
C1_ChainValidation ==
    chain_result # NoChain => chain_result = ExpectedChain(c_arg)

\* two whole segments validated
C1_Witness == Len(c_arg) = 7 /\ chain_result = ChainOk(c_arg)

-----------------------------------------------------------------------------
(* Properties of combination, checked under SpecComb *)

\* C(n, k) by the multiplicative recurrence C(n, k) = C(n, k - 1) * (n - k + 1) / k
RECURSIVE Binomial(_, _)
Binomial(n, k) == IF k = 0 THEN 1 ELSE (Binomial(n, k - 1) * (n - k + 1)) \div k

\* C3: for 0 <= k <= n, combination(n, k) returns exactly C(n, k) or panics, and the
\* unchecked product factorial(k) * factorial(n - k) never exceeds 64 bits: the only
\* panic is the checked multiplication of factorial.
C3_NoSilentWrap ==
    comb_result.err # "not called" =>
        /\ ~comb_result.wrapped
        /\ comb_result.ok => comb_result.val = ToLimbs(Binomial(n_arg, k_arg))
        /\ ~comb_result.ok => comb_result.err = "factorial overflow"

\* the largest n whose factorial fits, at its largest coefficient
C3_Witness ==
    /\ n_arg = 20 /\ k_arg = 10
    /\ comb_result.ok
    /\ comb_result.val = ToLimbs(184756)

-----------------------------------------------------------------------------
(* Properties of the generic evaluator at high orders, checked under SpecOrder *)

\* C2 as stated: 22 control points (order 21) are accepted and 23 are rejected.
C2_BoundaryAsStated ==
    result.op = "from_container" =>
        (result.outcome.ok <=> Len(result.arg) <= 22)

\* C2: from_container accepts every container of at most 21 control points (order
\* 20) and panics on every container of 22 or more (order 21 or more): the boundary
\* lies between order 20 and order 21.
C2_Boundary ==
    result.op = "from_container" =>
        /\ result.outcome.ok <=> Len(result.arg) <= 21
        /\ result.outcome.ok => /\ curve.points = result.arg
                                /\ curve.factor_vec = <<>>
        /\ ~result.outcome.ok => /\ IsPanic(result.outcome)
                                 /\ panicked

\* order 21 is rejected
C2_Witness ==
    /\ result.op = "from_container"
    /\ Len(result.arg) = 22
    /\ IsPanic(result.outcome)

\* the slice of factor_vec a cell selects, when the cell lies inside factor_vec
CellSlice(c, r) == SubSeq(c.factor_vec, r.start + 1, r.end)

\* the cells hold the coefficient tables of this order
TablesFor(c, order) ==
    /\ c.factors = RangeSlice(0, order + 1)
    /\ c.dfactors = RangeSlice(order + 1, 2 * order + 1)
    /\ Len(c.factor_vec) = 2 * order + 1
    /\ \A k \in 0..order :
          /\ CellSlice(c, c.factors)[k + 1] = ToLimbs(Binomial(order, k))
          /\ CellSlice(c, c.factors)[k + 1] = CellSlice(c, c.factors)[order - k + 1]
    /\ \A k \in 0..(order - 1) :
          CellSlice(c, c.dfactors)[k + 1] = ToLimbs(Binomial(order - 1, k))

\* an evaluation of a curve of order 0..20 has just called update_factors
UpdatedAtOrder ==
    /\ result.op \in {"interp_unbounded", "slope_unbounded"}
    /\ Len(curve.points) \in 1..21

\* C4: after update_factors(order, ..) for an order in 0..20, whatever the cells held
\* before, factors selects order + 1 entries C(order, k), dfactors selects the order
\* entries C(order - 1, k) that follow them, both inside factor_vec, and
\* factors[k] = factors[order - k].
C4_FactorTables ==
    UpdatedAtOrder => TablesFor(curve, Len(curve.points) - 1)

\* order 20: the middle coefficients C(20, 10) and C(19, 9)
C4_Witness ==
    /\ UpdatedAtOrder
    /\ Len(curve.points) = 21
    /\ CellSlice(curve, curve.factors)[11] = ToLimbs(184756)
    /\ CellSlice(curve, curve.dfactors)[10] = ToLimbs(92378)

-----------------------------------------------------------------------------
(* C5: the coefficient cache and observable behaviour *)

\* the same query on a curve freshly constructed from the same control points
FreshQuery(op, points, t) ==
    IF op = "interp_unbounded"
    THEN interp_unbounded(NewNBez(points), t, DefaultDim, overflow_checks).out
    ELSE slope_unbounded(NewNBez(points), t, DefaultDim, overflow_checks).out

\* C5: after any sequence of queries, clones and mutations through as_mut, an
\* evaluation returns what a freshly constructed curve with the same control points
\* returns.
C5_CacheTransparent ==
    result.op \in {"interp_unbounded", "slope_unbounded"}
        => result.outcome = FreshQuery(result.op, result.arg, result.t)

\* The divergence: without overflow checks, a curve evaluated on one control point and
\* then emptied through as_mut panics in Vec::reserve, where a fresh empty curve
\* returns P::zero().
C5_Witness ==
    /\ ~overflow_checks
    /\ result.op = "interp_unbounded"
    /\ result.arg = <<>>
    /\ result.outcome = Panic("capacity overflow")
    /\ FreshQuery(result.op, result.arg, result.t) = Ok(PZero(DefaultDim))

\* Where every evaluation is made on at least one control point the cache is
\* transparent.
C5_TransparentNonEmpty ==
    (result.op \in {"interp_unbounded", "slope_unbounded"} /\ result.arg # <<>>)
        => result.outcome = FreshQuery(result.op, result.arg, result.t)

-----------------------------------------------------------------------------
(* C11: construction from an empty container *)

\* C11: construction from a sequence of length 0 is invalid: from_container on an
\* empty container yields no curve, so order() is never computed as len - 1 on a
\* curve of zero control points.
C11_EmptyInvalid ==
    /\ (result.op = "from_container" /\ result.arg = <<>>) => ~result.outcome.ok
    /\ result.op = "order" => result.arg # <<>>

\* The divergence: from_container returns a curve for the empty container; without
\* overflow checks order() on it is 0 - 1 wrapped, usize::MAX.
C11_Witness ==
    /\ ~overflow_checks
    /\ result.op = "order"
    /\ result.arg = <<>>
    /\ curve.live
    /\ result.outcome = OkI(-1)

\* With overflow checks order() on the empty curve panics on the subtraction.
C11_OrderOfEmpty ==
    (result.op = "order" /\ result.arg = <<>>) =>
        result.outcome = IF overflow_checks THEN PanicI("attempt to subtract with overflow")
                         ELSE OkI(-1)

-----------------------------------------------------------------------------
(* C12: one evaluator evaluated by two threads, checked under SpecRace *)

\* the complete coefficient table of an order
CompleteRow(order) == [k \in 1..(order + 1) |-> ToLimbs(Binomial(order, k - 1))]

\* the coefficients a thread has read so far are those of the complete table
ReadsComplete(loc) ==
    \A i \in 1..Len(loc.seen) : loc.seen[i] = CompleteRow(Len(shared.points) - 1)[i]

\* C12: with the whole of update_factors and the read executed atomically per
\* evaluation, no evaluation panics, every coefficient slice read is the complete table
\* of the curve's order, every evaluation returns what a single-threaded evaluation
\* returns, and between evaluations the cells hold the tables of the order.  (That an
\* incomplete slice is read when the steps interleave is C12_Witness.)
C12_AtomicSafe ==
    synchronized =>
        /\ \A th \in Threads :
              /\ evals[th].pc # "panicked"
              /\ ReadsComplete(evals[th])
              /\ evals[th].pc = "done" =>
                    /\ evals[th].seen = CompleteRow(Len(shared.points) - 1)
                    /\ evals[th].out = interp_unbounded(NewNBez(shared.points), RaceT,
                                                        DefaultDim, overflow_checks).out
        /\ (lock = 0 /\ \E th \in Threads : evals[th].pc = "done") =>
              /\ shared.borrow = 0
              /\ TablesFor(AsNBez(shared), Len(shared.points) - 1)

\* Without the lock: both threads found the cache stale and filled the vector with
\* their pushes interleaved; an evaluation then read, with no write under its slice, a
\* slice that is not the table of the order, and returned another value.
C12_Witness ==
    /\ ~synchronized
    /\ \E th \in Threads :
          /\ evals[th].pc = "done"
          /\ ~evals[th].raced
          /\ Len(evals[th].seen) = Len(shared.points)
          /\ ~ReadsComplete(evals[th])
          /\ evals[th].out.ok
          /\ evals[th].out # interp_unbounded(NewNBez(shared.points), RaceT,
                                              DefaultDim, overflow_checks).out

-----------------------------------------------------------------------------
(* C13: the shape of an accepted chain, checked under SpecChain *)

\* node i (from 0) of s is an anchor if 3 divides i and a control node otherwise
AnchorsAtThirds(s) ==
    \A i \in 0..(Len(s) - 1) :
        IF i % 3 = 0 THEN is_point(s[i + 1]) ELSE is_control(s[i + 1])

\* C13: every chain from_container returns as Ok, of every accepted length, length 1
\* included, has an anchor at every index divisible by 3 and a control node at every
\* other index.
C13_AnchorsAtThirds ==
    chain_result.kind = "Ok" => AnchorsAtThirds(chain_result.container)

\* The divergence: a single control node is returned as Ok, the loop over the
\* segments having no iteration.
C13_Witness ==
    /\ Len(c_arg) = 1
    /\ is_control(c_arg[1])
    /\ chain_result = ChainOk(c_arg)

\* From one whole segment on the accepted chains have the shape.
C13_AnchorsFromOneSegment ==
    (chain_result.kind = "Ok" /\ Len(chain_result.container) >= 4)
        => AnchorsAtThirds(chain_result.container)

-----------------------------------------------------------------------------
(* C14: evaluation of every accepted order, checked under SpecOrder *)

\* an evaluation of a curve of 1 to 21 control points has returned or panicked
EvaluatedAccepted ==
    /\ result.op \in {"interp_unbounded", "slope_unbounded"}
    /\ Len(result.arg) \in 1..(OrderLimit - 1)

\* C14: on every curve of 1 to 21 control points interp_unbounded(t) and
\* slope_unbounded(t) complete normally: no factorial overflow, no unsigned
\* subtraction below zero, no index out of range.
C14_Evaluable == EvaluatedAccepted => result.outcome.ok

\* The divergence: with overflow checks, slope_unbounded on a curve of one control
\* point (order 0) finds dfactors empty and panics on dfactors.len() - 1.
C14_Witness ==
    /\ overflow_checks
    /\ result.op = "slope_unbounded"
    /\ Len(result.arg) = 1
    /\ curve.dfactors = RangeSlice(1, 1)
    /\ result.outcome = Panic("attempt to subtract with overflow")

\* Every other evaluation completes: interp_unbounded at every order 0..20,
\* slope_unbounded at every order 1..20, and slope_unbounded at order 0 where the
\* subtraction wraps.
C14_EvaluableElsewhere ==
    (EvaluatedAccepted /\ ~(overflow_checks /\ result.op = "slope_unbounded"
                                            /\ Len(result.arg) = 1))
        => result.outcome.ok

-----------------------------------------------------------------------------
(* C6: the endpoint property, checked under SpecEval *)

\* the first and the last control point (or control value) of a call
FirstOf(arg) == arg[1]
LastOf(arg) == arg[Len(arg)]

\* an evaluation of a curve of order n >= 1: the generic evaluator on 2 to 21 control
\* points, or a generated polynomial
EvaluatedOrderOneUp ==
    \/ result.op = "interp_unbounded" /\ Len(result.arg) \in 2..(OrderLimit - 1)
    \/ result.op = "poly_interp_unbounded"

\* C6: for every order n >= 1, interp_unbounded(0) is exactly P_0 and
\* interp_unbounded(1) is exactly P_n, for the generic evaluator and for every generated
\* polynomial; t^0 and (1 - t)^0 are 1 also at base 0.
C6_Endpoints ==
    EvaluatedOrderOneUp =>
        /\ result.t = Rat(0) => result.outcome = Ok(FirstOf(result.arg))
        /\ result.t = Rat(1) => result.outcome = Ok(LastOf(result.arg))

\* order 20 at t = 1: every term but the last has a factor (1 - t)^k = 0, the last has
\* (1 - t)^0
C6_Witness ==
    /\ result.op = "interp_unbounded"
    /\ Len(result.arg) = 21
    /\ result.t = Rat(1)
    /\ result.outcome = Ok(RampPoint(20))

\* BezPoly6o at t = 0
C6_WitnessPoly ==
    /\ result.op = "poly_interp_unbounded"
    /\ Len(result.arg) = MAX_ORDER + 1
    /\ result.t = Rat(0)
    /\ result.outcome = Ok(Rat(0))

-----------------------------------------------------------------------------
(* C7: degree elevation preserves the shape, checked under SpecOrder *)

\* elevate has returned a curve
Elevated == result.op = "elevate" /\ result.outcome.ok

\* interp_unbounded(t) of a curve value
ValueAt(c, t) == interp_unbounded(c, t, DefaultDim, overflow_checks).out

-----------------------------------------------------------------------------
(* C8: the control points elevate builds, checked under SpecOrder *)

\* Q_i = P_i (1 - i/(n+1)) + P_(i-1) (i/(n+1)) on one axis; P and Q count from 0
StatedAxis(P, i, axis) ==
    RAdd(RMul(P[i + 1][axis], RNorm(Len(P) - i, Len(P))),
         RMul(P[i][axis], RNorm(i, Len(P))))

\* Q_0 = P_0, Q_(n+1) = P_n, and Q_i as above for 1 <= i <= n, where n + 1 = Len(P)
StatedPoints(P) ==
    [j \in 1..(Len(P) + 1) |->
        IF j = 1 THEN P[1]
        ELSE IF j = Len(P) + 1 THEN P[Len(P)]
        ELSE [axis \in 1..DefaultDim |-> StatedAxis(P, j - 1, axis)]]

\* C8 as stated: on every curve of an order from_container accepts (1 to 21 control
\* points) elevate returns the curve of the stated control points and leaves the
\* original alone.
C8_ElevateAsStated ==
    (result.op = "elevate" /\ Len(result.arg) \in 1..(OrderLimit - 1)) =>
        /\ result.outcome.ok
        /\ result.outcome.val.points = StatedPoints(result.arg)
        /\ curve.points = result.arg

\* C8: on a curve of order n in 0..19 (1 to 20 control points) elevate returns a new
\* curve of order n + 1 with Q_0 = P_0, Q_(n+1) = P_n and
\* Q_i = lerp(P_i, P_(i-1), i/(n+1)); on a curve of order 20 (21 control points) it
\* panics in from_container, the elevated curve having 22 control points; on a curve of
\* no control point it panics; in every case the original curve is unchanged.
C8_Elevate ==
    result.op = "elevate" =>
        /\ curve.points = result.arg
        /\ Len(result.arg) \in 1..(OrderLimit - 2) =>
              /\ result.outcome.ok
              /\ result.outcome.val = NewNBez(StatedPoints(result.arg))
              /\ ~panicked
        /\ Len(result.arg) = OrderLimit - 1 =>
              /\ result.outcome = Panic("Cannot create Bezier polynomials with an order >= 21")
              /\ panicked
        /\ Len(result.arg) = 0 =>
              /\ IsPanic(result.outcome)
              /\ panicked

\* order 20 cannot be elevated
C8_Witness ==
    /\ result.op = "elevate"
    /\ Len(result.arg) = 21
    /\ curve.points = result.arg
    /\ result.outcome = Panic("Cannot create Bezier polynomials with an order >= 21")

\* order 19 is elevated to order 20
C8_WitnessReturned ==
    /\ result.op = "elevate"
    /\ Len(result.arg) = 20
    /\ result.outcome.ok
    /\ result.outcome.val.points = StatedPoints(result.arg)

-----------------------------------------------------------------------------
(* C9: the bounds-checked queries, checked under SpecEval *)

CheckedQueries == {"interp", "slope", "poly_interp", "poly_slope"}
UncheckedQueries ==
    {"interp_unbounded", "slope_unbounded", "poly_interp_unbounded", "poly_slope_unbounded"}

\* C9: a bounds-checked query with t outside [0, 1] fails with a DomainError the caller
\* recovers from (no panic), and interp_unbounded and slope_unbounded with such a t
\* return a value.
C9_RecoverableDomainError ==
    /\ (result.op \in CheckedQueries /\ ~check_t_bounds(result.t)) =>
          /\ result.outcome = DomainError
          /\ ~panicked
    /\ (result.op \in UncheckedQueries /\ ~check_t_bounds(result.t)) => result.outcome.ok

\* The divergence: BezPoly2o::interp(-1) cannot return an error, and panics.
C9_Witness ==
    /\ result.op = "poly_interp"
    /\ Len(result.arg) = 3
    /\ result.t = Rat(-1)
    /\ ~result.outcome.ok
    /\ panicked

\* What holds of the generated polynomials: a checked query with t outside [0, 1]
\* returns no value, one with t inside returns what the unchecked query returns, and
\* the unchecked queries return a value for every t.
C9_CheckedOrPanic ==
    /\ result.op \in {"poly_interp", "poly_slope"} =>
          (result.outcome.ok <=> check_t_bounds(result.t))
    /\ result.op \in {"poly_interp_unbounded", "poly_slope_unbounded"} => result.outcome.ok

-----------------------------------------------------------------------------
(* C10: the fixed-shape and the generic evaluator, checked under SpecEval *)

\* NBez on the same control points, of the dimension of the points
GenericValue(op, points, t) ==
    IF op = "interp"
    THEN interp_unbounded(NewNBez(points), t, Len(points[1]), overflow_checks).out
    ELSE slope_unbounded(NewNBez(points), t, Len(points[1]), overflow_checks).out

\* control values as points of one axis
OnOneAxis(values) == [k \in 1..Len(values) |-> <<values[k]>>]

\* C10: for every generated order 2..6 and dimension 2..4, the generated type's
\* interp_unbounded and slope_unbounded return, for the same control points and the same
\* t, what NBez::interp_unbounded and NBez::slope_unbounded return.
C10_EvaluatorsAgree ==
    /\ result.op = "composite_interp_unbounded"
          => result.outcome = GenericValue("interp", result.arg, result.t)
    /\ result.op = "composite_slope_unbounded"
          => result.outcome = GenericValue("slope", result.arg, result.t)

\* The divergence: no rule of bez_composite matches the invocation written for
\* Bez2o2d, so there is no Bez2o2d to evaluate, while NBez returns a value.
C10_Witness ==
    /\ result.op = "composite_interp_unbounded"
    /\ Len(result.arg) = 3
    /\ Len(result.arg[1]) = 2
    /\ result.outcome = CompileError
    /\ GenericValue("interp", result.arg, result.t).ok

\* The one-dimensional polynomials do agree with NBez along every axis, with the
\* weights C(n, k) and the difference pairs P_(k+1) - P_k weighted C(n-1, k) n.
C10_AxesAgree ==
    /\ result.op = "poly_interp_unbounded" =>
          /\ result.outcome.ok
          /\ Ok(<<result.outcome.val>>) = GenericValue("interp", OnOneAxis(result.arg), result.t)
    /\ result.op = "poly_slope_unbounded" =>
          /\ result.outcome.ok
          /\ Ok(<<result.outcome.val>>) = GenericValue("slope", OnOneAxis(result.arg), result.t)

=============================================================================
